---- MODULE Spec2Model ----
(***************************************************************************)
(* Model of V2PushCommand.processApplyStreams and processEvent             *)
(* (command/v2/v2_push_command.go): one consuming loop that selects over   *)
(* the three channels returned by V2PushActor.Apply (events, warnings,     *)
(* errors), renders to the UI and decides when the apply run is over; and  *)
(* of V2PushCommand.Execute, which prepares the application configs and    *)
(* runs that loop once per config.                                         *)
(*                                                                         *)
(* A channel is modelled by the queue of items its producer has made       *)
(* available and a flag telling that the producer closed it.  A receive    *)
(* case of the select is ready when the queue holds an item, or when the   *)
(* channel is closed and drained (a Go receive on a closed channel never   *)
(* blocks and yields the zero value with ok = false).  Go's select picks   *)
(* any ready case, with no priority.                                       *)
(***************************************************************************)
EXTENDS Integers, Sequences, FiniteSets, TLC

\* ---------------------------------------------------------------- bounds
MaxEvents == 2
MaxBatches == 2
MaxBatchLen == 2
MaxErrors == 1

\* ------------------------------------------------------------ vocabulary
\* pushaction.Event values switched on by processEvent
ApplicationCreated == "ApplicationCreated"
ApplicationUpdated == "ApplicationUpdated"
RouteCreated == "RouteCreated"
RouteBound == "RouteBound"
UploadingApplication == "UploadingApplication"
UploadComplete == "UploadComplete"
Complete == "Complete"

Event ==
  {ApplicationCreated, ApplicationUpdated, RouteCreated, RouteBound,
   UploadingApplication, UploadComplete, Complete}

\* The events the producer of the general specification draws from: one of
\* each class processEvent distinguishes (needs the current user, plain
\* text line, terminal marker).
ProducedEvent == {ApplicationCreated, RouteCreated, Complete}

\* error values: nil, the errors the producer may put on errorStream, and
\* the error Config.CurrentUser() may return
\* The k-th error the producer emits is OpErr(k): errors are opaque, so an
\* error is identified by its position in the producer's output.
Nil == [kind |-> "nil", id |-> 0]
OpErr(k) == [kind |-> "applyErr", id |-> k]
CurrentUserErr == [kind |-> "currentUserErr", id |-> 0]
NoResult == [kind |-> "running", id |-> 0]
IsOpError(r) == r.kind = "applyErr"

\* the errors of the steps of Execute that precede the apply runs
CheckTargetErr == [kind |-> "checkTargetErr", id |-> 0]
SettingsErr == [kind |-> "settingsErr", id |-> 0]
MergeErr == [kind |-> "mergeErr", id |-> 0]
ConvertErr == [kind |-> "convertErr", id |-> 0]

\* What Execute returns: nil, or shared.HandleError(err), the translation of
\* err, which is kept together with the error it was made from
NotReturned == [handled |-> FALSE, err |-> NoResult]
ReturnNil == [handled |-> FALSE, err |-> Nil]
HandleError(err) == [handled |-> TRUE, err |-> err]

VARIABLES
  eventStream,          \* items waiting on eventStream
  warningsStream,       \* batches waiting on warningsStream
  errorStream,          \* errors waiting on errorStream
  eventStreamClosed,    \* close(eventStream) was executed by the producer
  warningsStreamClosed, \* close(warningsStream) was executed
  errorStreamClosed,    \* close(errorStream) was executed
  evSent,               \* every event the producer has emitted, in order
  warnSent,             \* every warning batch the producer has emitted
  errSent,              \* every error the producer has emitted
  warnSentAtError,      \* number of batches emitted before the first error
  eventClosed,          \* local of processApplyStreams
  warningsClosed,       \* local of processApplyStreams
  complete,             \* local of processApplyStreams
  pc,                   \* "loop" inside the for loop, "returned" after it
  result,               \* the value processApplyStreams returned
  ui,                   \* the lines displayed by cmd.UI, in order
  stage,                \* the statement of Execute that runs next
  appConfigs,           \* number of configs ConvertToApplicationConfig gave
  applied,              \* number of calls of Actor.Apply made so far
  convertWarnings,      \* the warnings ConvertToApplicationConfig returned
  execResult            \* the value Execute returned

prodVars ==
  <<eventStream, warningsStream, errorStream, eventStreamClosed,
    warningsStreamClosed, errorStreamClosed, evSent, warnSent, errSent,
    warnSentAtError>>
localVars == <<eventClosed, warningsClosed, complete>>
execVars == <<stage, appConfigs, applied, convertWarnings, execResult>>
vars == <<prodVars, localVars, pc, result, ui, execVars>>

\* ------------------------------------------------------------------ UI
\* A displayed line.  Warning texts are numbers, distinct per batch and
\* position, so that a line identifies the warning it shows.
TextLine(template) == [kind |-> "text", text |-> template, warning |-> 0]
WarningLine(w) == [kind |-> "warning", text |-> "", warning |-> w]

Warning(batch, idx) == batch * 10 + idx
BatchOf(w) == w \div 10
Batch(k, n) == [i \in 1..n |-> Warning(k, i)]

DisplayText(out, template) == Append(out, TextLine(template))
DisplayTextWithFlavor(out, template) == Append(out, TextLine(template))
DisplayWarning(out, w) == Append(out, WarningLine(w))
DisplayWarnings(out, warnings) ==
  out \o [i \in 1..Len(warnings) |-> WarningLine(warnings[i])]

\* -------------------------------------------------------- processEvent
\* Result of processEvent: the (bool, error) pair and the UI afterwards.
EventResult(c, e, out) == [complete |-> c, err |-> e, ui |-> out]

\* Config.CurrentUser() either resolves the user or returns an error; which
\* one is an input of every call (userErr is Nil or CurrentUserErr).
CurrentUserResult == {Nil, CurrentUserErr}

\* processEvent with the slip of looking the current user up for the
\* RouteCreated line as well
processEvent_RouteNeedsUser(event, out, userErr) ==
  CASE event \in {ApplicationCreated, ApplicationUpdated, RouteCreated} ->
         IF userErr # Nil
           THEN EventResult(FALSE, userErr, out)
           ELSE EventResult(FALSE, Nil, DisplayTextWithFlavor(out, event))
    [] event \in {RouteBound, UploadingApplication, UploadComplete} ->
         EventResult(FALSE, Nil, DisplayText(out, event))
    [] event = Complete ->
         EventResult(TRUE, Nil, out)
    [] OTHER ->
         EventResult(FALSE, Nil, out)

\* processEvent with the slip of reporting UploadComplete as the end of the
\* operation
processEvent_UploadCompleteTerminal(event, out, userErr) ==
  CASE event = ApplicationCreated ->
         IF userErr # Nil
           THEN EventResult(FALSE, userErr, out)
           ELSE EventResult(FALSE, Nil,
                  DisplayTextWithFlavor(out, "Creating app {{.AppName}} in org {{.OrgName}} / space {{.SpaceName}} as {{.Username}}..."))
    [] event = ApplicationUpdated ->
         IF userErr # Nil
           THEN EventResult(FALSE, userErr, out)
           ELSE EventResult(FALSE, Nil,
                  DisplayTextWithFlavor(out, "Updating app {{.AppName}} in org {{.OrgName}} / space {{.SpaceName}} as {{.Username}}..."))
    [] event = RouteCreated ->
         EventResult(FALSE, Nil, DisplayText(out, "Creating routes..."))
    [] event = RouteBound ->
         EventResult(FALSE, Nil, DisplayText(out, "Binding routes..."))
    [] event = UploadingApplication ->
         EventResult(FALSE, Nil, DisplayText(out, "Uploading application..."))
    [] event = UploadComplete ->
         EventResult(TRUE, Nil, DisplayText(out, "Upload complete"))
    [] event = Complete ->
         EventResult(TRUE, Nil, out)
    [] OTHER ->
         EventResult(FALSE, Nil, out)

processEvent(event, out, userErr) ==
  CASE event = ApplicationCreated ->
         IF userErr # Nil
           THEN EventResult(FALSE, userErr, out)
           ELSE EventResult(FALSE, Nil,
                  DisplayTextWithFlavor(out, "Creating app {{.AppName}} in org {{.OrgName}} / space {{.SpaceName}} as {{.Username}}..."))
    [] event = ApplicationUpdated ->
         IF userErr # Nil
           THEN EventResult(FALSE, userErr, out)
           ELSE EventResult(FALSE, Nil,
                  DisplayTextWithFlavor(out, "Updating app {{.AppName}} in org {{.OrgName}} / space {{.SpaceName}} as {{.Username}}..."))
    [] event = RouteCreated ->
         EventResult(FALSE, Nil, DisplayText(out, "Creating routes..."))
    [] event = RouteBound ->
         EventResult(FALSE, Nil, DisplayText(out, "Binding routes..."))
    [] event = UploadingApplication ->
         EventResult(FALSE, Nil, DisplayText(out, "Uploading application..."))
    [] event = UploadComplete ->
         EventResult(FALSE, Nil, DisplayText(out, "Upload complete"))
    [] event = Complete ->
         EventResult(TRUE, Nil, out)
    [] OTHER ->
         EventResult(FALSE, Nil, out)

\* -------------------------------------------------- processApplyStreams
\* The test that ends the for loop, evaluated after every select case that
\* did not return.
LoopExit(ec, wc, c) == ec /\ wc /\ c

\* Falls out of the select: either break the loop and return nil, or go
\* round again.
AfterSelect(ec, wc, c) ==
  IF LoopExit(ec, wc, c)
    THEN pc' = "returned" /\ result' = Nil
    ELSE pc' = "loop" /\ result' = result

\* The event case with the slip of no longer presenting the events that
\* arrive once the terminal marker has been seen
CaseEventWith_DropsAfterComplete(userErr) ==
  /\ pc = "loop"
  /\ eventStream # <<>> \/ eventStreamClosed
  /\ IF eventStream = <<>>
       THEN /\ eventClosed' = TRUE
            /\ UNCHANGED <<eventStream, warningsClosed, complete, ui>>
            /\ AfterSelect(TRUE, warningsClosed, complete)
       ELSE LET r == IF complete
                       THEN EventResult(TRUE, Nil, ui)
                       ELSE processEvent(Head(eventStream), ui, userErr) IN
            /\ eventStream' = Tail(eventStream)
            /\ complete' = r.complete
            /\ ui' = r.ui
            /\ UNCHANGED <<eventClosed, warningsClosed>>
            /\ IF r.err # Nil
                 THEN pc' = "returned" /\ result' = r.err
                 ELSE AfterSelect(eventClosed, warningsClosed, r.complete)
  /\ UNCHANGED <<warningsStream, errorStream, eventStreamClosed,
                 warningsStreamClosed, errorStreamClosed, evSent, warnSent,
                 errSent, warnSentAtError>>
  /\ UNCHANGED execVars

\* case event, ok := <-eventStream, in an environment where the call of
\* Config.CurrentUser() made by processEvent (if any) yields userErr
CaseEventWith(userErr) ==
  /\ pc = "loop"
  /\ eventStream # <<>> \/ eventStreamClosed
  /\ IF eventStream = <<>>
       THEN \* !ok
            /\ eventClosed' = TRUE
            /\ UNCHANGED <<eventStream, warningsClosed, complete, ui>>
            /\ AfterSelect(TRUE, warningsClosed, complete)
       ELSE LET r == processEvent(Head(eventStream), ui, userErr) IN
            /\ eventStream' = Tail(eventStream)
            /\ complete' = r.complete
            /\ ui' = r.ui
            /\ UNCHANGED <<eventClosed, warningsClosed>>
            /\ IF r.err # Nil
                 THEN pc' = "returned" /\ result' = r.err
                 ELSE AfterSelect(eventClosed, warningsClosed, r.complete)
  /\ UNCHANGED <<warningsStream, errorStream, eventStreamClosed,
                 warningsStreamClosed, errorStreamClosed, evSent, warnSent,
                 errSent, warnSentAtError>>
  /\ UNCHANGED execVars

CaseEvent == \E userErr \in CurrentUserResult : CaseEventWith(userErr)

\* The warnings case with the call of DisplayWarnings left out
CaseWarnings_NoDisplay ==
  /\ pc = "loop"
  /\ warningsStream # <<>> \/ warningsStreamClosed
  /\ IF warningsStream = <<>>
       THEN /\ warningsClosed' = TRUE
            /\ UNCHANGED warningsStream
            /\ AfterSelect(eventClosed, TRUE, complete)
       ELSE /\ warningsStream' = Tail(warningsStream)
            /\ UNCHANGED warningsClosed
            /\ AfterSelect(eventClosed, warningsClosed, complete)
  /\ UNCHANGED <<eventStream, errorStream, eventStreamClosed,
                 warningsStreamClosed, errorStreamClosed, evSent, warnSent,
                 errSent, warnSentAtError, eventClosed, complete, ui>>
  /\ UNCHANGED execVars

\* The warnings case displaying a batch last warning first
Reverse(sq) == [i \in 1..Len(sq) |-> sq[Len(sq) + 1 - i]]

CaseWarnings_Reversed ==
  /\ pc = "loop"
  /\ warningsStream # <<>> \/ warningsStreamClosed
  /\ IF warningsStream = <<>>
       THEN /\ warningsClosed' = TRUE
            /\ ui' = DisplayWarnings(ui, <<>>)
            /\ UNCHANGED warningsStream
            /\ AfterSelect(eventClosed, TRUE, complete)
       ELSE /\ warningsStream' = Tail(warningsStream)
            /\ ui' = DisplayWarnings(ui, Reverse(Head(warningsStream)))
            /\ UNCHANGED warningsClosed
            /\ AfterSelect(eventClosed, warningsClosed, complete)
  /\ UNCHANGED <<eventStream, errorStream, eventStreamClosed,
                 warningsStreamClosed, errorStreamClosed, evSent, warnSent,
                 errSent, warnSentAtError, eventClosed, complete>>
  /\ UNCHANGED execVars

\* case warnings, ok := <-warningsStream
CaseWarnings ==
  /\ pc = "loop"
  /\ warningsStream # <<>> \/ warningsStreamClosed
  /\ IF warningsStream = <<>>
       THEN \* !ok: the zero value (nil) is displayed
            /\ warningsClosed' = TRUE
            /\ ui' = DisplayWarnings(ui, <<>>)
            /\ UNCHANGED warningsStream
            /\ AfterSelect(eventClosed, TRUE, complete)
       ELSE /\ warningsStream' = Tail(warningsStream)
            /\ ui' = DisplayWarnings(ui, Head(warningsStream))
            /\ UNCHANGED warningsClosed
            /\ AfterSelect(eventClosed, warningsClosed, complete)
  /\ UNCHANGED <<eventStream, errorStream, eventStreamClosed,
                 warningsStreamClosed, errorStreamClosed, evSent, warnSent,
                 errSent, warnSentAtError, eventClosed,
                 complete>>
  /\ UNCHANGED execVars

\* The error case with the slip of going round the loop again when the
\* error stream is found closed
CaseError_ClosedContinues ==
  /\ pc = "loop"
  /\ errorStream # <<>> \/ errorStreamClosed
  /\ IF errorStream = <<>>
       THEN /\ warningsClosed' = TRUE
            /\ UNCHANGED errorStream
            /\ AfterSelect(eventClosed, TRUE, complete)
       ELSE /\ errorStream' = Tail(errorStream)
            /\ result' = Head(errorStream)
            /\ pc' = "returned"
            /\ UNCHANGED warningsClosed
  /\ UNCHANGED <<eventStream, warningsStream, eventStreamClosed,
                 warningsStreamClosed, errorStreamClosed, evSent, warnSent,
                 errSent, warnSentAtError, eventClosed,
                 complete, ui>>
  /\ UNCHANGED execVars

\* case err, ok := <-errorStream
CaseError ==
  /\ pc = "loop"
  /\ errorStream # <<>> \/ errorStreamClosed
  /\ IF errorStream = <<>>
       THEN \* !ok: sets warningsClosed and returns the zero value, nil
            /\ warningsClosed' = TRUE
            /\ result' = Nil
            /\ UNCHANGED errorStream
       ELSE /\ errorStream' = Tail(errorStream)
            /\ result' = Head(errorStream)
            /\ UNCHANGED warningsClosed
  /\ pc' = "returned"
  /\ UNCHANGED <<eventStream, warningsStream, eventStreamClosed,
                 warningsStreamClosed, errorStreamClosed, evSent, warnSent,
                 errSent, warnSentAtError, eventClosed,
                 complete, ui>>
  /\ UNCHANGED execVars

\* ------------------------------------------------------------ producer
\* The goroutine behind V2PushActor.Apply: it sends on the three channels
\* and closes them, independently of the consuming loop.  Once the loop
\* has returned nobody receives any more, so no further send is modelled;
\* the channels may still be closed.
consVars == <<eventClosed, warningsClosed, complete, pc,
              result, ui, execVars>>

EmitEvent(e) ==
  /\ pc = "loop"
  /\ ~eventStreamClosed
  /\ eventStream' = Append(eventStream, e)
  /\ evSent' = Append(evSent, e)
  /\ UNCHANGED <<warningsStream, errorStream, eventStreamClosed,
                 warningsStreamClosed, errorStreamClosed, warnSent, errSent,
                 warnSentAtError>>
  /\ UNCHANGED consVars

EmitWarnings(n) ==
  /\ pc = "loop"
  /\ ~warningsStreamClosed
  /\ LET b == Batch(Len(warnSent) + 1, n) IN
       /\ warningsStream' = Append(warningsStream, b)
       /\ warnSent' = Append(warnSent, b)
  /\ UNCHANGED <<eventStream, errorStream, eventStreamClosed,
                 warningsStreamClosed, errorStreamClosed, evSent, errSent,
                 warnSentAtError>>
  /\ UNCHANGED consVars

EmitError(e) ==
  /\ pc = "loop"
  /\ ~errorStreamClosed
  /\ errorStream' = Append(errorStream, e)
  /\ errSent' = Append(errSent, e)
  /\ warnSentAtError' = IF errSent = <<>> THEN Len(warnSent)
                                           ELSE warnSentAtError
  /\ UNCHANGED <<eventStream, warningsStream, eventStreamClosed,
                 warningsStreamClosed, errorStreamClosed, evSent, warnSent>>
  /\ UNCHANGED consVars

CloseEvents ==
  /\ ~eventStreamClosed
  /\ eventStreamClosed' = TRUE
  /\ UNCHANGED <<eventStream, warningsStream, errorStream,
                 warningsStreamClosed, errorStreamClosed, evSent, warnSent,
                 errSent, warnSentAtError>>
  /\ UNCHANGED consVars

CloseWarnings ==
  /\ ~warningsStreamClosed
  /\ warningsStreamClosed' = TRUE
  /\ UNCHANGED <<eventStream, warningsStream, errorStream,
                 eventStreamClosed, errorStreamClosed, evSent, warnSent,
                 errSent, warnSentAtError>>
  /\ UNCHANGED consVars

CloseErrors ==
  /\ ~errorStreamClosed
  /\ errorStreamClosed' = TRUE
  /\ UNCHANGED <<eventStream, warningsStream, errorStream,
                 eventStreamClosed, warningsStreamClosed, evSent, warnSent,
                 errSent, warnSentAtError>>
  /\ UNCHANGED consVars

\* ------------------------------------------------------- specification
\* State at entry of processApplyStreams, right after Apply returned the
\* three channels: nothing sent yet, the three locals are false.
StreamsInit ==
  /\ eventStream = <<>>
  /\ warningsStream = <<>>
  /\ errorStream = <<>>
  /\ eventStreamClosed = FALSE
  /\ warningsStreamClosed = FALSE
  /\ errorStreamClosed = FALSE
  /\ evSent = <<>>
  /\ warnSent = <<>>
  /\ errSent = <<>>
  /\ warnSentAtError = 0

LocalsInit ==
  /\ eventClosed = FALSE
  /\ warningsClosed = FALSE
  /\ complete = FALSE
  /\ pc = "loop"
  /\ result = NoResult
  /\ ui = <<>>

\* Execute at the call of processApplyStreams for its only config
ExecuteInRun ==
  /\ stage = "range"
  /\ appConfigs = 1
  /\ applied = 1
  /\ convertWarnings = <<>>
  /\ execResult = NotReturned

Init ==
  /\ StreamsInit
  /\ LocalsInit
  /\ ExecuteInRun

ProduceEvent == \E e \in ProducedEvent : Len(evSent) < MaxEvents /\ EmitEvent(e)
ProduceWarnings ==
  \E n \in {0, MaxBatchLen} : Len(warnSent) < MaxBatches /\ EmitWarnings(n)
ProduceError == Len(errSent) < MaxErrors /\ EmitError(OpErr(Len(errSent) + 1))

Next ==
  \/ ProduceEvent
  \/ ProduceWarnings
  \/ ProduceError
  \/ CloseEvents
  \/ CloseWarnings
  \/ CloseErrors
  \/ CaseEvent
  \/ CaseWarnings
  \/ CaseError

Spec == Init /\ [][Next]_vars

\* The loop in an environment where Config.CurrentUser() resolves
CaseEventUserResolved == CaseEventWith(Nil)

\* A producer that sends no error.  Go's select chooses at random among the
\* ready cases, so a case that stays ready is eventually taken: weak
\* fairness of each case of the select.  Nothing obliges the producer to
\* send or close.
NextNoError ==
  \/ ProduceEvent
  \/ ProduceWarnings
  \/ CloseEvents
  \/ CloseWarnings
  \/ CloseErrors
  \/ CaseEventUserResolved
  \/ CaseWarnings
  \/ CaseError

LiveSpec ==
  /\ Init
  /\ [][NextNoError]_vars
  /\ WF_vars(CaseEventUserResolved)
  /\ WF_vars(CaseWarnings)
  /\ WF_vars(CaseError)

\* A producer that draws from every event processEvent switches on and
\* sends no warnings: the runs that exercise processEvent in full.
ProduceAnyEvent == \E e \in Event : Len(evSent) < MaxEvents /\ EmitEvent(e)

NextEvents ==
  \/ ProduceAnyEvent
  \/ ProduceError
  \/ CloseEvents
  \/ CloseWarnings
  \/ CloseErrors
  \/ CaseEvent
  \/ CaseWarnings
  \/ CaseError

SpecEvents == Init /\ [][NextEvents]_vars

\* Scenario A: the producer sends these six events and closes the events
\* stream; it closes the warnings stream and the error stream without
\* sending anything on them.  The current user resolves.
ScenarioAEvents ==
  <<ApplicationCreated, RouteCreated, RouteBound, UploadingApplication,
    UploadComplete, Complete>>

EmitScenarioA ==
  /\ Len(evSent) < Len(ScenarioAEvents)
  /\ EmitEvent(ScenarioAEvents[Len(evSent) + 1])

CloseEventsA == evSent = ScenarioAEvents /\ CloseEvents

NextA ==
  \/ EmitScenarioA
  \/ CloseEventsA
  \/ CloseWarnings
  \/ CloseErrors
  \/ CaseEventUserResolved
  \/ CaseWarnings
  \/ CaseError

SpecA == Init /\ [][NextA]_vars

\* ------------------------------------------------------------- Execute
MaxConfigs == 2

\* command.ExperimentalWarning, displayed first by Execute
ExperimentalWarning == Warning(0, 0)
\* the warnings ConvertToApplicationConfig returns: none, or one
ConvertWarnings == {Batch(0, n) : n \in {0, 1}}

\* DisplayWarning(ExperimentalWarning); SharedActor.CheckTarget
CheckTarget ==
  \E err \in {Nil, CheckTargetErr} :
    /\ stage = "checkTarget"
    /\ ui' = DisplayWarning(ui, ExperimentalWarning)
    /\ IF err # Nil
         THEN stage' = "done" /\ execResult' = HandleError(err)
         ELSE stage' = "settings" /\ UNCHANGED execResult
    /\ UNCHANGED <<appConfigs, applied, convertWarnings, prodVars,
                   localVars, pc, result>>

\* cmd.GetCommandLineSettings(), which fails when os.Getwd() does
GetCommandLineSettings ==
  \E err \in {Nil, SettingsErr} :
    /\ stage = "settings"
    /\ IF err # Nil
         THEN stage' = "done" /\ execResult' = HandleError(err)
         ELSE stage' = "merge" /\ UNCHANGED execResult
    /\ UNCHANGED <<appConfigs, applied, convertWarnings, prodVars,
                   localVars, pc, result, ui>>

\* Actor.MergeAndValidateSettingsAndManifests
MergeAndValidateSettingsAndManifests ==
  \E err \in {Nil, MergeErr} :
    /\ stage = "merge"
    /\ IF err # Nil
         THEN stage' = "done" /\ execResult' = HandleError(err)
         ELSE stage' = "convert" /\ UNCHANGED execResult
    /\ UNCHANGED <<appConfigs, applied, convertWarnings, prodVars,
                   localVars, pc, result, ui>>

\* ConvertToApplicationConfig with the slip of testing err before the
\* warnings are displayed
ConvertToApplicationConfig_ErrorFirst ==
  \E n \in 0..MaxConfigs, warnings \in ConvertWarnings,
     err \in {Nil, ConvertErr} :
    /\ stage = "convert"
    /\ convertWarnings' = warnings
    /\ IF err # Nil
         THEN /\ ui' = DisplayText(ui, "Getting app info...")
              /\ stage' = "done"
              /\ execResult' = HandleError(err)
              /\ appConfigs' = 0
         ELSE /\ ui' = DisplayWarnings(DisplayText(ui, "Getting app info..."),
                                       warnings)
              /\ stage' = "range"
              /\ appConfigs' = n
              /\ UNCHANGED execResult
    /\ UNCHANGED <<applied, prodVars, localVars, pc, result>>

\* DisplayText("Getting app info..."); Actor.ConvertToApplicationConfig;
\* DisplayWarnings(warnings); then the test of err.  On an error the
\* configs returned are not used.
ConvertToApplicationConfig ==
  \E n \in 0..MaxConfigs, warnings \in ConvertWarnings,
     err \in {Nil, ConvertErr} :
    /\ stage = "convert"
    /\ convertWarnings' = warnings
    /\ ui' = DisplayWarnings(DisplayText(ui, "Getting app info..."), warnings)
    /\ IF err # Nil
         THEN /\ stage' = "done"
              /\ execResult' = HandleError(err)
              /\ appConfigs' = 0
         ELSE /\ stage' = "range"
              /\ appConfigs' = n
              /\ UNCHANGED execResult
    /\ UNCHANGED <<applied, prodVars, localVars, pc, result>>

\* The range loop is at its head: before the first config, or after a call
\* of processApplyStreams that returned nil
AtLoopHead ==
  /\ stage = "range"
  /\ \/ pc = "idle"
     \/ pc = "returned" /\ result = Nil

\* The next iteration with the slip of keeping the three flags of
\* processApplyStreams across its calls
ApplyNext_KeepsLocals ==
  /\ AtLoopHead
  /\ applied < appConfigs
  /\ applied' = applied + 1
  /\ eventStream' = <<>>
  /\ warningsStream' = <<>>
  /\ errorStream' = <<>>
  /\ eventStreamClosed' = FALSE
  /\ warningsStreamClosed' = FALSE
  /\ errorStreamClosed' = FALSE
  /\ evSent' = <<>>
  /\ warnSent' = <<>>
  /\ errSent' = <<>>
  /\ warnSentAtError' = 0
  /\ UNCHANGED localVars
  /\ pc' = "loop"
  /\ result' = NoResult
  /\ UNCHANGED <<stage, appConfigs, convertWarnings, execResult, ui>>

\* The next iteration with the slip of going on after a call of
\* processApplyStreams that returned an error
ApplyNext_IgnoresError ==
  /\ stage = "range"
  /\ pc \in {"idle", "returned"}
  /\ applied < appConfigs
  /\ applied' = applied + 1
  /\ eventStream' = <<>>
  /\ warningsStream' = <<>>
  /\ errorStream' = <<>>
  /\ eventStreamClosed' = FALSE
  /\ warningsStreamClosed' = FALSE
  /\ errorStreamClosed' = FALSE
  /\ evSent' = <<>>
  /\ warnSent' = <<>>
  /\ errSent' = <<>>
  /\ warnSentAtError' = 0
  /\ eventClosed' = FALSE
  /\ warningsClosed' = FALSE
  /\ complete' = FALSE
  /\ pc' = "loop"
  /\ result' = NoResult
  /\ UNCHANGED <<stage, appConfigs, convertWarnings, execResult, ui>>

\* One more iteration of the range loop: Actor.Apply(appConfig) returns
\* three new channels and processApplyStreams is entered, its three locals
\* declared false.
ApplyNext ==
  /\ AtLoopHead
  /\ applied < appConfigs
  /\ applied' = applied + 1
  /\ eventStream' = <<>>
  /\ warningsStream' = <<>>
  /\ errorStream' = <<>>
  /\ eventStreamClosed' = FALSE
  /\ warningsStreamClosed' = FALSE
  /\ errorStreamClosed' = FALSE
  /\ evSent' = <<>>
  /\ warnSent' = <<>>
  /\ errSent' = <<>>
  /\ warnSentAtError' = 0
  /\ eventClosed' = FALSE
  /\ warningsClosed' = FALSE
  /\ complete' = FALSE
  /\ pc' = "loop"
  /\ result' = NoResult
  /\ UNCHANGED <<stage, appConfigs, convertWarnings, execResult, ui>>

\* processApplyStreams returned an error: return shared.HandleError(err)
ExecuteReturnError ==
  /\ stage = "range"
  /\ pc = "returned"
  /\ result # Nil
  /\ stage' = "done"
  /\ execResult' = HandleError(result)
  /\ UNCHANGED <<appConfigs, applied, convertWarnings, prodVars, localVars,
                 pc, result, ui>>

\* The range loop is over: return nil
ExecuteReturnNil ==
  /\ AtLoopHead
  /\ applied = appConfigs
  /\ stage' = "done"
  /\ execResult' = ReturnNil
  /\ UNCHANGED <<appConfigs, applied, convertWarnings, prodVars, localVars,
                 pc, result, ui>>

\* State at the call of Execute: nothing displayed, no channel yet (the
\* stream variables hold the values they take when Apply makes them)
InitExec ==
  /\ StreamsInit
  /\ eventClosed = FALSE
  /\ warningsClosed = FALSE
  /\ complete = FALSE
  /\ pc = "idle"
  /\ result = NoResult
  /\ ui = <<>>
  /\ stage = "checkTarget"
  /\ appConfigs = 0
  /\ applied = 0
  /\ convertWarnings = <<>>
  /\ execResult = NotReturned

\* The producer of the apply run in progress: plain and terminal events,
\* errors, and the three closes; it sends no warnings.  A close made after
\* processApplyStreams returned is seen by nobody and is left out.
ApplyProduceEvent ==
  \E e \in {RouteCreated, Complete} :
    Len(evSent) < MaxEvents /\ EmitEvent(e)
ApplyCloseEvents == pc = "loop" /\ CloseEvents
ApplyCloseWarnings == pc = "loop" /\ CloseWarnings
ApplyCloseErrors == pc = "loop" /\ CloseErrors

NextExec ==
  \/ CheckTarget
  \/ GetCommandLineSettings
  \/ MergeAndValidateSettingsAndManifests
  \/ ConvertToApplicationConfig
  \/ ApplyNext
  \/ ExecuteReturnError
  \/ ExecuteReturnNil
  \/ ApplyProduceEvent
  \/ ProduceError
  \/ ApplyCloseEvents
  \/ ApplyCloseWarnings
  \/ ApplyCloseErrors
  \/ CaseEvent
  \/ CaseWarnings
  \/ CaseError

SpecExec == InitExec /\ [][NextExec]_vars

\* ------------------------------------------------------------ helpers
Range(f) == {f[i] : i \in DOMAIN f}

IsText(l) == l.kind = "text"
IsWarning(l) == l.kind = "warning"
ProgressLines(out) == SelectSeq(out, IsText)
WarningLines(out) == SelectSeq(out, IsWarning)

RECURSIVE Flatten(_)
Flatten(batches) ==
  IF batches = <<>> THEN <<>>
  ELSE Head(batches) \o Flatten(Tail(batches))

\* The lines DisplayWarnings produces for a sequence of warnings
LinesOf(warnings) == [i \in 1..Len(warnings) |-> WarningLine(warnings[i])]

\* The batches / events the loop has received so far: a channel is FIFO
NumWarnRecv == Len(warnSent) - Len(warningsStream)
WarnRecv == SubSeq(warnSent, 1, NumWarnRecv)
NumEvRecv == Len(evSent) - Len(eventStream)
EvRecv == SubSeq(evSent, 1, NumEvRecv)

Returned == pc = "returned"
Success == pc = "returned" /\ result = Nil

\* ------------------------------------------------------------- claims

\* C1: processApplyStreams returns nil only in a state where the events
\* stream and the warnings stream have been observed closed and the
\* terminal marker has been observed.
C1_SuccessOnlyWhenAllThree ==
  Success => (eventClosed /\ warningsClosed /\ complete)

\* C2: if the producer has put an error on the error stream, what
\* processApplyStreams returns is that error (a failure to resolve the
\* current user, the other error the function can return, is set aside).
C2_EmittedErrorIsReturned ==
  (Returned /\ errSent # <<>> /\ result # CurrentUserErr) => result = errSent[1]

\* C4: in an iteration where an error is available on the error stream the
\* loop acts on the error: no step taken while an error waits renders a
\* progress line or a warning.
C4_ErrorTakesPrecedence ==
  [][(pc = "loop" /\ errorStream # <<>>) => ui' = ui]_vars

\* C3: with no error emitted and the current user resolved, once the
\* producer has sent exactly one terminal marker on the events stream and
\* closed the events stream and the warnings stream, processApplyStreams
\* eventually returns nil.
Markers(evs) == {i \in DOMAIN evs : evs[i] = Complete}
CleanProducerDone ==
  /\ eventStreamClosed
  /\ warningsStreamClosed
  /\ Cardinality(Markers(evSent)) = 1
C3_CleanRunSucceeds == CleanProducerDone ~> Success

C6_NoEmittedWarningLost ==
  (Returned /\ IsOpError(result)) =>
    /\ Len(WarningLines(ui)) >= Len(Flatten(SubSeq(warnSent, 1, warnSentAtError)))
    /\ SubSeq(WarningLines(ui), 1, Len(Flatten(SubSeq(warnSent, 1, warnSentAtError))))
         = LinesOf(Flatten(SubSeq(warnSent, 1, warnSentAtError)))

\* C6 (amended): when the run returns an error of the error stream, the
\* warnings rendered are exactly those of the batches the loop received
\* from the warnings stream before it received the error; batches still
\* waiting on the stream are abandoned.
C6_ReceivedWarningsRendered ==
  (Returned /\ IsOpError(result)) =>
    WarningLines(ui) = LinesOf(Flatten(WarnRecv))

C6_Witness ==
  /\ Returned
  /\ IsOpError(result)
  /\ WarningLines(ui) # <<>>
  /\ warningsStream # <<>>
  /\ Head(warningsStream) # <<>>
  /\ warnSentAtError = Len(warnSent)

\* C7: the warning lines displayed are the received batches in the order
\* received, each batch in its own order, and the lines of one batch are
\* contiguous: no progress line and no line of another batch lies between
\* two lines of the same batch.
SameBatch(l1, l2) ==
  IsWarning(l1) /\ IsWarning(l2) /\ BatchOf(l1.warning) = BatchOf(l2.warning)

C7_WarningBatchesInOrder ==
  /\ WarningLines(ui) = LinesOf(Flatten(WarnRecv))
  /\ \A i, j \in DOMAIN ui :
       (i < j /\ SameBatch(ui[i], ui[j])) =>
         \A k \in i..j : SameBatch(ui[i], ui[k])

C7_Witness ==
  /\ Len(WarningLines(ui)) = 2 * MaxBatchLen
  /\ \E i, j, k \in DOMAIN ui :
       /\ i < j /\ j < k
       /\ IsWarning(ui[i]) /\ IsText(ui[j]) /\ IsWarning(ui[k])
       /\ ~SameBatch(ui[i], ui[k])

\* C8: once the terminal marker has been received the run still goes on:
\* it returns nil only after it has observed the events stream closed, and
\* every warning batch emitted until then has been rendered.
C8_MarkerDoesNotEndRun ==
  (Success /\ Complete \in Range(EvRecv)) =>
    /\ eventClosed
    /\ WarningLines(ui) = LinesOf(Flatten(warnSent))

\* C9: in scenario A every run that returns, returns nil with exactly five
\* progress lines displayed (one per event but the terminal marker).
C9_ScenarioA ==
  Returned =>
    /\ result = Nil
    /\ Len(ProgressLines(ui)) = Len(ScenarioAEvents) - 1

\* C10: if the events stream is closed without the terminal marker ever
\* sent and no error is ever emitted, processApplyStreams does not return
\* (a failure to resolve the current user set aside).
C10_NoReturnWithoutMarker ==
  ~(/\ Returned
    /\ result # CurrentUserErr
    /\ eventStreamClosed
    /\ Complete \notin Range(evSent)
    /\ errSent = <<>>)

\* The line each non-terminal event is displayed as
TemplateOf(event) ==
  CASE event = ApplicationCreated ->
         "Creating app {{.AppName}} in org {{.OrgName}} / space {{.SpaceName}} as {{.Username}}..."
    [] event = ApplicationUpdated ->
         "Updating app {{.AppName}} in org {{.OrgName}} / space {{.SpaceName}} as {{.Username}}..."
    [] event = RouteCreated -> "Creating routes..."
    [] event = RouteBound -> "Binding routes..."
    [] event = UploadingApplication -> "Uploading application..."
    [] event = UploadComplete -> "Upload complete"

\* A step of the loop that receives an event from the events stream
ReceivesEvent ==
  pc = "loop" /\ eventStream # <<>> /\ eventStream' = Tail(eventStream)

\* C11 (as claimed): the terminal marker renders no line and is reported
\* terminal; every other event renders exactly one line, the one of its own
\* template, and is reported non-terminal.
C11_FixedOutcome ==
  [][ReceivesEvent =>
       IF Head(eventStream) = Complete
         THEN ui' = ui /\ complete'
         ELSE /\ ui' = Append(ui, TextLine(TemplateOf(Head(eventStream))))
              /\ ~complete']_vars

\* C11 (amended): as claimed, except that ApplicationCreated and
\* ApplicationUpdated render their line only when the current user
\* resolves; when it does not they render no line, are reported
\* non-terminal and the error of CurrentUser is returned.
C11_FixedOutcomeUserResolved ==
  [][ReceivesEvent =>
       IF Head(eventStream) = Complete
         THEN ui' = ui /\ complete' /\ result' # CurrentUserErr
         ELSE IF result' = CurrentUserErr
           THEN /\ Head(eventStream) \in {ApplicationCreated, ApplicationUpdated}
                /\ ui' = ui
                /\ ~complete'
           ELSE /\ ui' = Append(ui, TextLine(TemplateOf(Head(eventStream))))
                /\ ~complete']_vars

C11_Witness ==
  /\ EvRecv = <<UploadComplete, Complete>>
  /\ ui = <<TextLine(TemplateOf(UploadComplete))>>
  /\ complete
  /\ pc = "loop"

\* C13: once the loop has observed a stream closed, the select does not
\* read that stream again: its case is no longer selectable.
C13_ClosedStreamNotRead ==
  pc = "loop" =>
    /\ eventClosed => ~ENABLED CaseEvent
    /\ warningsClosed => ~ENABLED CaseWarnings

\* C14: the terminal-marker flag is permanent: once complete is true it
\* stays true while the loop runs, whatever is received afterwards.
C14_CompleteIsPermanent ==
  [][(pc = "loop" /\ complete /\ pc' = "loop") => complete']_vars

\* The progress lines a sequence of events is displayed as when the current
\* user resolves: one line per event in order, none for the terminal marker
RECURSIVE RenderAll(_)
RenderAll(events) ==
  IF events = <<>> THEN <<>>
  ELSE IF Head(events) = Complete THEN RenderAll(Tail(events))
  ELSE <<TextLine(TemplateOf(Head(events)))>> \o RenderAll(Tail(events))

\* The received events that were displayed: all of them, but for the last
\* one when it ended the run with the error of CurrentUser
Displayed ==
  IF result = CurrentUserErr
    THEN SubSeq(EvRecv, 1, Len(EvRecv) - 1)
    ELSE EvRecv

\* C15: at every point of a run the events handed to the presenter are the
\* events received so far from the events stream, in the same order, none
\* dropped or duplicated: the progress lines displayed are those of the
\* received events in order, and the flag returned by the presenter is that
\* of the last event received.
C15_EventsPresentedInOrder ==
  /\ ProgressLines(ui) = RenderAll(Displayed)
  /\ (pc = "loop" /\ EvRecv # <<>>) =>
       (complete <=> EvRecv[Len(EvRecv)] = Complete)
  /\ (pc = "loop" /\ EvRecv = <<>>) => ~complete

C15_Witness ==
  /\ Len(EvRecv) = MaxEvents
  /\ Len(ui) = MaxEvents
  /\ \A i, j \in DOMAIN ui : i # j => ui[i] # ui[j]

\* C17: while the loop runs and the error stream is closed and drained,
\* the error case can be selected whatever the other streams and the flags
\* are, and taking it returns nil at once and displays nothing.
ErrorStreamSeenClosed == CaseError /\ errorStream = <<>>

C17_ErrorClosedReturnsNil ==
  /\ []((pc = "loop" /\ errorStreamClosed /\ errorStream = <<>>) =>
          ENABLED ErrorStreamSeenClosed)
  /\ [][ErrorStreamSeenClosed =>
          (pc' = "returned" /\ result' = Nil /\ ui' = ui)]_vars

C17_Witness ==
  /\ Success
  /\ errorStreamClosed
  /\ ~eventClosed
  /\ ~complete
  /\ Len(eventStream) = MaxEvents
  /\ ~eventStreamClosed
  /\ ~warningsStreamClosed

\* C16: every call of processApplyStreams made by Execute starts with its
\* three flags false, so within a run a flag that is set was set by that
\* run: eventClosed only once this run's events stream is closed and
\* drained, warningsClosed (while the loop goes on) only once this run's
\* warnings stream is closed and drained, complete only when the last event
\* received in this run is the terminal marker.
C16_FreshPerRun ==
  /\ [][applied' # applied =>
          (~eventClosed' /\ ~warningsClosed' /\ ~complete')]_vars
  /\ [](pc = "loop" =>
          /\ eventClosed => (eventStreamClosed /\ eventStream = <<>>)
          /\ warningsClosed => (warningsStreamClosed /\ warningsStream = <<>>)
          /\ complete => (EvRecv # <<>> /\ EvRecv[Len(EvRecv)] = Complete))

\* The second run has started and received nothing yet; the first run
\* returned nil, so it ended with warningsClosed set, and it displayed the
\* line of an event it received.
C16_Witness ==
  /\ applied = 2
  /\ pc = "loop"
  /\ evSent = <<>>
  /\ ~eventClosed
  /\ ~warningsClosed
  /\ ~complete
  /\ Len(ProgressLines(ui)) > 1

\* C18: Execute runs the configs one at a time and stops at the first
\* error: Apply is called for one more config only while no run is in
\* progress and, after the first call, only when the previous
\* processApplyStreams returned nil; once a run has returned an error Apply
\* cannot be called again, and when Execute is over it has returned the
\* handled form of that error.
C18_OneAtATimeFailFast ==
  /\ [][applied' # applied =>
          /\ applied' = applied + 1
          /\ pc # "loop"
          /\ applied > 0 => (pc = "returned" /\ result = Nil)]_vars
  /\ []((pc = "returned" /\ result # Nil) =>
          /\ ~ENABLED ApplyNext
          /\ stage = "done" => execResult = HandleError(result))
  /\ [][(pc = "returned" /\ result # Nil) =>
          (applied' = applied /\ pc' = pc /\ result' = result)]_vars

\* Execute returned the error of its first run although more configs were
\* left
C18_Witness ==
  /\ stage = "done"
  /\ applied = 1
  /\ appConfigs = MaxConfigs
  /\ IsOpError(result)
  /\ execResult = HandleError(result)

\* C19: the warnings ConvertToApplicationConfig returned are displayed,
\* right after the line "Getting app info...", also when it returned an
\* error; and when Execute returns the error of CheckTarget, of
\* GetCommandLineSettings, of MergeAndValidateSettingsAndManifests or of
\* ConvertToApplicationConfig, Apply has not been called.
PreparationErr == {CheckTargetErr, SettingsErr, MergeErr, ConvertErr}

ConvertWasCalled == TextLine("Getting app info...") \in Range(ui)

C19_ConvertWarningsAndNoApply ==
  /\ ConvertWasCalled =>
       /\ Len(ui) >= 2 + Len(convertWarnings)
       /\ ui[2] = TextLine("Getting app info...")
       /\ SubSeq(ui, 3, 2 + Len(convertWarnings)) = LinesOf(convertWarnings)
  /\ execResult.err \in PreparationErr =>
       (stage = "done" /\ applied = 0 /\ pc = "idle")
  /\ (stage \in {"checkTarget", "settings", "merge", "convert"}) =>
       (applied = 0 /\ pc = "idle")

C19_Witness ==
  /\ execResult = HandleError(ConvertErr)
  /\ convertWarnings # <<>>
  /\ ui = <<WarningLine(ExperimentalWarning),
            TextLine("Getting app info..."),
            WarningLine(convertWarnings[1])>>
  /\ applied = 0
====
